---- MODULE Spec2Model ----
(***************************************************************************)
(* Model of the date-range analytics engine of src/index.tsx:              *)
(*   rocToGregorian               (calendar converter)                      *)
(*   calculateYearlyDistrictStats (classification pass)                     *)
(*   renderYearlyStats            (district rows of the table)              *)
(*   renderCompletionVisuals      (completion pass)                         *)
(*                                                                         *)
(* Strings that the code takes apart (date strings) are sequences of       *)
(* one-character strings.  A Date is its local wall-clock time value,      *)
(* [day |-> days since 1970-01-01, ms |-> millisecond of that day];        *)
(* Dates compare by (day, ms).  A percentage is the exact quotient         *)
(* [num, den] of the division the code performs.                           *)
(***************************************************************************)
EXTENDS Integers, Sequences, FiniteSets, TLC

VARIABLES
    rocDateStr,     \* argument of rocToGregorian
    rocResult,      \* its return value
    rocPc,          \* "call" before the call, "ret" after it
    rocSegs,        \* the segments the date string was written from
    rocSeps,        \* the separators written between them
    data,           \* argument data of calculateYearlyDistrictStats
    startA, endA,   \* window A
    startB, endB,   \* window B
    stats,          \* DistrictStats returned / passed to the renderers
    statsPc,        \* "call" | "ret"
    tableRows,      \* district column of the table built by renderYearlyStats
    targets,        \* Map<string, number> passed to renderCompletionVisuals
    completionData, \* the array built by renderCompletionVisuals
    divByZero,      \* TRUE once a division by 0 was evaluated
    complPc,        \* "idle" | "table" | "chart"
    allData,                 \* global allData
    currentYearlyStats,      \* global currentYearlyStats
    allFilteredStationsData, \* global allFilteredStationsData
    targetInputs,   \* value of the target input of each table row
    completionDisplay, \* style.display of #yearly-completion-container
    cardsDisplay,   \* style.display of the five result cards
    clock,          \* the latest time read with new Date()
    tzOffset,       \* local time minus UTC, in ms
    lastEvent       \* the handler that ran last and the branch it took

vars == <<rocDateStr, rocResult, rocPc, rocSegs, rocSeps, data, startA, endA, startB, endB,
          stats, statsPc, tableRows, targets, completionData, divByZero,
          complPc, allData, currentYearlyStats, allFilteredStationsData,
          targetInputs, completionDisplay, cardsDisplay, clock, tzOffset,
          lastEvent>>

rocVars == <<rocDateStr, rocResult, rocPc, rocSegs, rocSeps>>
statsVars == <<data, startA, endA, startB, endB, stats, statsPc>>
complVars == <<tableRows, targets, completionData, divByZero, complPc>>
appVars == <<allData, currentYearlyStats, allFilteredStationsData,
             targetInputs, completionDisplay, cardsDisplay, clock, tzOffset,
             lastEvent>>

----------------------------------------------------------------------------
(* Bounds of the model *)

\* longest record list passed to calculateYearlyDistrictStats
MaxRecords == 2
\* largest number of '/'- or '-'-separated segments of a date string
MaxSegments == 4
\* largest countA / countB of a district handed to the renderers
MaxCount == 1
\* largest target typed into a target input
MaxTarget == 2
\* last day of 2024 on which a date range is computed
MaxDayOfYear == 61

----------------------------------------------------------------------------
(* Characters and strings *)

Digits == {"0", "1", "2", "3", "4", "5", "6", "7", "8", "9"}

DigitVal == [c \in Digits |->
    CASE c = "0" -> 0 [] c = "1" -> 1 [] c = "2" -> 2 [] c = "3" -> 3
      [] c = "4" -> 4 [] c = "5" -> 5 [] c = "6" -> 6 [] c = "7" -> 7
      [] c = "8" -> 8 [] c = "9" -> 9]

\* the character class of the regular expression /[\/\-]/
SplitSeparators == {"/", "-"}

WhiteSpace == {" "}

\* String.prototype.split(/[\/\-]/): the pieces between separators; an
\* empty string splits into one empty piece.
RECURSIVE Split(_)
Split(s) ==
    IF s = <<>> THEN << <<>> >>
    ELSE LET rest == Split(Tail(s)) IN
         IF Head(s) \in SplitSeparators
         THEN << <<>> >> \o rest
         ELSE << <<Head(s)>> \o Head(rest) >> \o Tail(rest)

RECURSIVE TrimStart(_)
TrimStart(s) ==
    IF s # <<>> /\ Head(s) \in WhiteSpace THEN TrimStart(Tail(s)) ELSE s

RECURSIVE DigitPrefix(_)
DigitPrefix(s) ==
    IF s # <<>> /\ Head(s) \in Digits
    THEN <<Head(s)>> \o DigitPrefix(Tail(s))
    ELSE <<>>

RECURSIVE DecimalValue(_)
DecimalValue(ds) ==
    IF ds = <<>> THEN 0
    ELSE 10 * DecimalValue(SubSeq(ds, 1, Len(ds) - 1)) + DigitVal[ds[Len(ds)]]

NaN == [nan |-> TRUE, val |-> 0]

\* parseInt(s, 10): leading white space is skipped, an optional sign is
\* read, then the longest run of digits; what follows the digits is
\* ignored; no digit at all gives NaN.
parseInt(s) ==
    LET t    == TrimStart(s)
        neg  == t # <<>> /\ Head(t) = "-"
        body == IF t # <<>> /\ Head(t) \in {"+", "-"} THEN Tail(t) ELSE t
        ds   == DigitPrefix(body)
    IN  IF ds = <<>> THEN NaN
        ELSE [nan |-> FALSE,
              val |-> IF neg THEN 0 - DecimalValue(ds) ELSE DecimalValue(ds)]

isNaN(n) == n.nan

----------------------------------------------------------------------------
(* Date: the time value of a JavaScript Date in local time *)

MsPerDay == 86400000

IsLeapYear(y) == (y % 4 = 0 /\ y % 100 # 0) \/ y % 400 = 0

\* day number of 1 January of year y (ECMAScript DayFromYear)
DayFromYear(y) ==
    365 * (y - 1970) + ((y - 1969) \div 4) - ((y - 1901) \div 100)
        + ((y - 1601) \div 400)

\* days of year y before its month with index m (0 = January)
DaysBeforeMonth(y, m) ==
    LET leap == IF IsLeapYear(y) THEN 1 ELSE 0 IN
    CASE m = 0 -> 0
      [] m = 1 -> 31
      [] m = 2 -> 59 + leap
      [] m = 3 -> 90 + leap
      [] m = 4 -> 120 + leap
      [] m = 5 -> 151 + leap
      [] m = 6 -> 181 + leap
      [] m = 7 -> 212 + leap
      [] m = 8 -> 243 + leap
      [] m = 9 -> 273 + leap
      [] m = 10 -> 304 + leap
      [] m = 11 -> 334 + leap
      [] m = 12 -> 365 + leap

\* ECMAScript MakeDay: months outside 0..11 carry into the year, the day
\* of the month is added as a plain offset.
MakeDay(year, month, date) ==
    LET ym == year + (month \div 12)
        mn == month % 12
    IN  DayFromYear(ym) + DaysBeforeMonth(ym, mn) + date - 1

\* new Date(year, monthIndex, day): local midnight of the normalised day;
\* a year in 0..99 means 1900 + year.
NewDate(year, monthIndex, day) ==
    LET fullYear == IF year >= 0 /\ year <= 99 THEN 1900 + year ELSE year
    IN  [day |-> MakeDay(fullYear, monthIndex, day), ms |-> 0]

\* Date.prototype.getFullYear / getMonth / getDate
YearSearch == 1900..2100

getFullYear(d) ==
    CHOOSE y \in YearSearch :
        DayFromYear(y) <= d.day /\ d.day < DayFromYear(y + 1)

getMonth(d) ==
    LET y == getFullYear(d)
        n == d.day - DayFromYear(y)
    IN  CHOOSE m \in 0..11 :
            DaysBeforeMonth(y, m) <= n /\ n < DaysBeforeMonth(y, m + 1)

getDate(d) ==
    LET y == getFullYear(d)
    IN  d.day - DayFromYear(y) - DaysBeforeMonth(y, getMonth(d)) + 1

\* relational comparison of two Dates (by time value)
DateLE(a, b) == a.day < b.day \/ (a.day = b.day /\ a.ms <= b.ms)
\* ">" in place of ">="
DateGE_Strict(a, b) == ~DateLE(a, b)
DateGE(a, b) == DateLE(b, a)

----------------------------------------------------------------------------
(* rocToGregorian, src/index.tsx:355-368 *)

\* A value handed to rocToGregorian: a string, null/undefined, or a value
\* of another type (JSON data is not type-checked at run time).
StrVal(chars) == [type |-> "string", chars |-> chars]
NullVal == [type |-> "null", chars |-> <<>>]
NumberVal == [type |-> "number", chars |-> <<>>]

NoDate == [null |-> TRUE, day |-> 0, ms |-> 0]
SomeDate(d) == [null |-> FALSE, day |-> d.day, ms |-> d.ms]

RocEpochOffset == 1911

\* the month passed on without the shift to a 0-based month index
rocToGregorian_MonthNotShifted(v) ==
    IF v.type # "string" \/ v.chars = <<>> THEN NoDate
    ELSE LET parts == Split(v.chars) IN
         IF Len(parts) # 3 THEN NoDate
         ELSE LET rocYear == parseInt(parts[1])
                  month   == parseInt(parts[2])
                  day     == parseInt(parts[3])
              IN  IF isNaN(rocYear) \/ isNaN(month) \/ isNaN(day) THEN NoDate
                  ELSE SomeDate(NewDate(rocYear.val + RocEpochOffset,
                                        month.val, day.val))

rocToGregorian(v) ==
    IF v.type # "string" \/ v.chars = <<>> THEN NoDate
    ELSE LET parts == Split(v.chars) IN
         IF Len(parts) # 3 THEN NoDate
         ELSE LET rocYear == parseInt(parts[1])
                  month   == parseInt(parts[2])
                  day     == parseInt(parts[3])
              IN  IF isNaN(rocYear) \/ isNaN(month) \/ isNaN(day) THEN NoDate
                  ELSE SomeDate(NewDate(rocYear.val + RocEpochOffset,
                                        month.val - 1, day.val))

----------------------------------------------------------------------------
(* DistrictStats: a plain object.  keys is Object.keys(stats), the own   *)
(* properties in insertion order; val maps each own key to its counts.   *)

EmptyStats == [keys |-> <<>>, val |-> <<>>]

Range(seq) == {seq[i] : i \in 1..Len(seq)}

OwnKeys(st) == Range(st.keys)

\* names that every object literal inherits from Object.prototype; the
\* inherited values are functions, hence truthy
ObjectPrototypeKeys ==
    {"constructor", "toString", "valueOf", "hasOwnProperty",
     "isPrototypeOf", "propertyIsEnumerable", "toLocaleString"}

\* truthiness of the property read stats[district]
HasTruthyProperty(st, district) ==
    district \in OwnKeys(st) \/ district \in ObjectPrototypeKeys

ZeroCounts == [countA |-> 0, countB |-> 0, countC |-> 0]

\* stats[district] = { countA: 0, countB: 0, countC: 0 }
AddDistrict(st, district) ==
    [keys |-> Append(st.keys, district),
     val  |-> [k \in OwnKeys(st) \cup {district} |->
                  IF k = district THEN ZeroCounts ELSE st.val[k]]]

\* stats[district].countA++ : on an own entry the count goes up by one;
\* when stats[district] is an inherited value the property is written on
\* that value and stats keeps its own properties.
IncCountA(st, district) ==
    IF district \in OwnKeys(st)
    THEN [st EXCEPT !.val[district].countA = @ + 1]
    ELSE st

IncCountB(st, district) ==
    IF district \in OwnKeys(st)
    THEN [st EXCEPT !.val[district].countB = @ + 1]
    ELSE st

\* the two bounds of a window joined by "||" in place of "&&"
ClassifyItem_EitherBound(st, item, sA, eA, sB, eB) ==
    LET district == item.district IN
    IF district = "" THEN st
    ELSE LET st1 == IF ~HasTruthyProperty(st, district)
                    THEN AddDistrict(st, district) ELSE st
             itemDate == rocToGregorian(item.date)
         IN  IF itemDate.null THEN st1
             ELSE IF DateGE(itemDate, sA) \/ DateLE(itemDate, eA)
                  THEN IncCountA(st1, district)
             ELSE IF DateGE(itemDate, sB) \/ DateLE(itemDate, eB)
                  THEN IncCountB(st1, district)
             ELSE st1

\* window B tested with "if" in place of "else if"
ClassifyItem_BothWindows(st, item, sA, eA, sB, eB) ==
    LET district == item.district IN
    IF district = "" THEN st
    ELSE LET st1 == IF ~HasTruthyProperty(st, district)
                    THEN AddDistrict(st, district) ELSE st
             itemDate == rocToGregorian(item.date)
             st2 == IF ~itemDate.null /\ DateGE(itemDate, sA) /\ DateLE(itemDate, eA)
                    THEN IncCountA(st1, district) ELSE st1
         IN  IF ~itemDate.null /\ DateGE(itemDate, sB) /\ DateLE(itemDate, eB)
             THEN IncCountB(st2, district) ELSE st2

\* the body of data.forEach(item => ...), src/index.tsx:417-436
ClassifyItem(st, item, sA, eA, sB, eB) ==
    LET district == item.district IN
    IF district = "" THEN st
    ELSE LET st1 == IF ~HasTruthyProperty(st, district)
                    THEN AddDistrict(st, district) ELSE st
             itemDate == rocToGregorian(item.date)
         IN  IF itemDate.null THEN st1
             ELSE IF DateGE(itemDate, sA) /\ DateLE(itemDate, eA)
                  THEN IncCountA(st1, district)
             ELSE IF DateGE(itemDate, sB) /\ DateLE(itemDate, eB)
                  THEN IncCountB(st1, district)
             ELSE st1

RECURSIVE ClassifyAll(_, _, _, _, _, _)
ClassifyAll(st, items, sA, eA, sB, eB) ==
    IF items = <<>> THEN st
    ELSE ClassifyAll(ClassifyItem(st, Head(items), sA, eA, sB, eB),
                     Tail(items), sA, eA, sB, eB)

\* the final pass left out
ComputeCountC_Skipped(st) == st

\* for (const district in stats) stats[district].countC = countA + countB
ComputeCountC(st) ==
    [st EXCEPT !.val = [k \in OwnKeys(st) |->
        [st.val[k] EXCEPT !.countC = st.val[k].countA + st.val[k].countB]]]

\* the array emptied by the loop (items taken off with shift())
ItemsAfterForEach_Shifted(items) == <<>>

\* the array data after data.forEach(...): the callback reads the fields
\* of each item and writes only to stats
ItemsAfterForEach(items) == items

calculateYearlyDistrictStats(items, sA, eA, sB, eB) ==
    ComputeCountC(ClassifyAll(EmptyStats, items, sA, eA, sB, eB))

----------------------------------------------------------------------------
(* The renderers, as far as the data they build *)

\* label of the aggregate row, the literal '\u7e3d\u8f44\u5340' of
\* src/index.tsx:602, written here in Latin letters
AggregateLabel == "ZongXiaQu"

\* the strings used as district names, in ascending order of their UTF-16
\* code units, which is the order of Array.prototype.sort()
CodeUnitOrder == <<"East", "North", AggregateLabel, "constructor">>

CodeUnitRank(name) == CHOOSE i \in 1..Len(CodeUnitOrder) : CodeUnitOrder[i] = name

RECURSIVE InsertSorted(_, _)
InsertSorted(name, sorted) ==
    IF sorted = <<>> THEN <<name>>
    ELSE IF CodeUnitRank(name) < CodeUnitRank(Head(sorted))
         THEN <<name>> \o sorted
         ELSE <<Head(sorted)>> \o InsertSorted(name, Tail(sorted))

\* keys.sort()
RECURSIVE Sort(_)
Sort(keys) ==
    IF keys = <<>> THEN <<>> ELSE InsertSorted(Head(keys), Sort(Tail(keys)))

\* renderYearlyStats: the district of each table row, which is also the
\* data-district of the row's target input; no table when stats is empty
renderYearlyStats(st) == Sort(st.keys)

\* only the presence of a target tested
PositiveTarget_Present(tg, district) == district \in DOMAIN tg

\* targets.get(district) is a number that is truthy and > 0
PositiveTarget(tg, district) ==
    district \in DOMAIN tg /\ tg[district] # 0 /\ tg[district] > 0

\* (n / d) * 100
Percentage(n, d) == [num |-> n * 100, den |-> d]

\* the sortedDistricts.forEach loop of renderCompletionVisuals; acc holds
\* completionData, totalC and totalTarget
RECURSIVE CompletionLoop(_, _, _, _)
CompletionLoop(districts, st, tg, acc) ==
    IF districts = <<>> THEN acc
    ELSE LET district == Head(districts) IN
         IF PositiveTarget(tg, district)
         THEN CompletionLoop(Tail(districts), st, tg,
                [completionData |->
                     Append(acc.completionData,
                            [key |-> district,
                             percentage |-> Percentage(st.val[district].countC,
                                                       tg[district])]),
                 totalC |-> acc.totalC + st.val[district].countC,
                 totalTarget |-> acc.totalTarget + tg[district]])
         ELSE CompletionLoop(Tail(districts), st, tg, acc)

\* the districts taken in the insertion order of stats, without sort()
renderCompletionVisuals_Unsorted(st, tg) ==
    LET acc == CompletionLoop(st.keys, st, tg,
                    [completionData |-> <<>>, totalC |-> 0, totalTarget |-> 0])
    IN  IF acc.totalTarget > 0
        THEN Append(acc.completionData,
                    [key |-> AggregateLabel,
                     percentage |-> Percentage(acc.totalC, acc.totalTarget)])
        ELSE acc.completionData

\* the aggregate row appended whatever totalTarget is
renderCompletionVisuals_AlwaysAggregate(st, tg) ==
    LET acc == CompletionLoop(Sort(st.keys), st, tg,
                    [completionData |-> <<>>, totalC |-> 0, totalTarget |-> 0])
    IN  Append(acc.completionData,
               [key |-> AggregateLabel,
                percentage |-> Percentage(acc.totalC, acc.totalTarget)])

renderCompletionVisuals(st, tg) ==
    LET sortedDistricts == Sort(st.keys)
        acc == CompletionLoop(sortedDistricts, st, tg,
                    [completionData |-> <<>>, totalC |-> 0, totalTarget |-> 0])
    IN  IF acc.totalTarget > 0
        THEN Append(acc.completionData,
                    [key |-> AggregateLabel,
                     percentage |-> Percentage(acc.totalC, acc.totalTarget)])
        ELSE acc.completionData

----------------------------------------------------------------------------
(* Date strings *)

\* segments tried in a three-segment string: digit strings in and out of
\* the calendar ranges, and segments that are not digit strings
NumericTokens ==
    { <<"1","1","3">>, <<"1","1","2">>, <<"0">>, <<"1">>, <<"2">>,
      <<"0","5">>, <<"1","2">>, <<"1","3">>, <<"2","5">>, <<"2","0">>,
      <<"2","9">>, <<"3","1">>, <<"3","2">> }

OtherTokens ==
    { <<"a","b","c">>, <<"2","0","a","b","c">>, <<>>, <<" ","5">> }

Tokens == NumericTokens \cup OtherTokens

\* segments tried in strings with another number of segments
FewTokens == { <<"1","1","3">>, <<"a","b","c">> }

RECURSIVE Join(_, _)
Join(segs, seps) ==
    IF Len(segs) = 0 THEN <<>>
    ELSE IF Len(segs) = 1 THEN segs[1]
    ELSE segs[1] \o <<seps[1]>> \o Join(Tail(segs), Tail(seps))

InitStats0 ==
    /\ data = <<>>
    /\ startA = [day |-> 0, ms |-> 0]
    /\ endA = [day |-> 0, ms |-> 0]
    /\ startB = [day |-> 0, ms |-> 0]
    /\ endB = [day |-> 0, ms |-> 0]
    /\ stats = EmptyStats
    /\ statsPc = "call"

InitCompl0 ==
    /\ tableRows = <<>>
    /\ targets = <<>>
    /\ completionData = <<>>
    /\ divByZero = FALSE
    /\ complPc = "idle"

\* the page before any data is loaded; the completion container starts
\* out hidden
InitApp0 ==
    /\ allData = <<>>
    /\ currentYearlyStats = EmptyStats
    /\ allFilteredStationsData = <<>>
    /\ targetInputs = <<>>
    /\ completionDisplay = "none"
    /\ cardsDisplay = "none"
    /\ clock = [day |-> 0, ms |-> 0]
    /\ tzOffset = 0
    /\ lastEvent = "DOMContentLoaded"

InitRoc0 ==
    /\ rocDateStr = NullVal
    /\ rocResult = NoDate
    /\ rocPc = "call"
    /\ rocSegs = <<>>
    /\ rocSeps = <<>>

\* the caller holds a string of n segments, null, or a non-string value
InitRoc ==
    /\ \E n \in 0..MaxSegments :
         /\ rocSegs \in [1..n -> IF n = 3 THEN Tokens ELSE FewTokens]
         /\ rocSeps \in [1..(IF n = 0 THEN 0 ELSE n - 1) -> SplitSeparators]
    /\ rocDateStr \in
            {StrVal(Join(rocSegs, rocSeps))}
            \cup (IF rocSegs = <<>> THEN {NullVal, NumberVal} ELSE {})
    /\ rocResult = NoDate
    /\ rocPc = "call"
    /\ InitStats0
    /\ InitCompl0
    /\ InitApp0

CallRocToGregorian ==
    /\ rocPc = "call"
    /\ rocResult' = rocToGregorian(rocDateStr)
    /\ rocPc' = "ret"
    /\ UNCHANGED <<rocDateStr, rocSegs, rocSeps, statsVars, complVars, appVars>>

NextRoc == CallRocToGregorian

SpecRoc == InitRoc /\ [][NextRoc]_vars

----------------------------------------------------------------------------
(* Calls of calculateYearlyDistrictStats *)

\* values of the district field: empty or missing, two ordinary names, and
\* a name that object literals inherit
DistrictValues == {"", "East", "North", "constructor"}

\* values of the inspection-date field: 1, 2 and 3 January 2024 in the
\* ROC calendar, and a string that is no date
RecordDates ==
    { StrVal(<<"1","1","3","/","0","1","/","0","1">>),
      StrVal(<<"1","1","3","/","1","/","2">>),
      StrVal(<<"1","1","3","-","0","1","-","0","3">>),
      StrVal(<<"a","b","c">>) }

Records == [district : DistrictValues, date : RecordDates]

\* days on which the windows start and end: 1 to 3 January 2024 for
\* window A, 2 to 3 January 2024 for window B
WindowDaysA == {MakeDay(2024, 0, d) : d \in 1..3}
WindowDaysB == {MakeDay(2024, 0, d) : d \in 2..3}

\* day boundaries as the caller sets them: setHours(0, 0, 0, 0) and
\* setHours(23, 59, 59, 999)
StartOfDay(n) == [day |-> n, ms |-> 0]
EndOfDay(n) == [day |-> n, ms |-> MsPerDay - 1]

InitStats ==
    /\ \E n \in 0..MaxRecords : data \in [1..n -> Records]
    /\ startA \in {StartOfDay(n) : n \in WindowDaysA}
    /\ endA \in {EndOfDay(n) : n \in WindowDaysA}
    /\ startB \in {StartOfDay(n) : n \in WindowDaysB}
    /\ endB \in {EndOfDay(n) : n \in WindowDaysB}
    /\ stats = EmptyStats
    /\ statsPc = "call"
    /\ InitRoc0
    /\ InitCompl0
    /\ InitApp0

CallCalculateYearlyDistrictStats ==
    /\ statsPc = "call"
    /\ stats' = calculateYearlyDistrictStats(data, startA, endA, startB, endB)
    /\ data' = ItemsAfterForEach(data)
    /\ statsPc' = "ret"
    /\ UNCHANGED <<startA, endA, startB, endB, rocVars, complVars, appVars>>

\* the caller invokes the function once more with the objects it passed
\* to the first call
CallCalculateYearlyDistrictStatsAgain ==
    /\ statsPc = "ret"
    /\ stats' = calculateYearlyDistrictStats(data, startA, endA, startB, endB)
    /\ data' = ItemsAfterForEach(data)
    /\ statsPc' = "again"
    /\ UNCHANGED <<startA, endA, startB, endB, rocVars, complVars, appVars>>

NextStats ==
    CallCalculateYearlyDistrictStats \/ CallCalculateYearlyDistrictStatsAgain

SpecStats == InitStats /\ [][NextStats]_vars

----------------------------------------------------------------------------
(* Rendering the table, then the completion chart for some targets.  The  *)
(* completion pass keeps nothing from one call to the next, so every call *)
(* is taken from the state in which the table has just been rendered.     *)

\* district names in the records shown: two ordinary names and a district
\* that is itself named like the aggregate row
ChartDistricts == {"East", "North", AggregateLabel}

\* sequences over S without repetition
RECURSIVE Arrangements(_)
Arrangements(S) ==
    {<<>>} \cup UNION { {<<x>> \o t : t \in Arrangements(S \ {x})} : x \in S }

CountsValues ==
    {[countA |-> a, countB |-> b, countC |-> a + b] :
        a \in 0..MaxCount, b \in 0..MaxCount}

\* the results calculateYearlyDistrictStats can return for these districts
StatsValues ==
    UNION { {[keys |-> ks, val |-> v] : v \in [Range(ks) -> CountsValues]} :
            ks \in Arrangements(ChartDistricts) }

\* a target is absent, negative, zero or positive
TargetMaps ==
    UNION { [D -> (-1)..MaxTarget] : D \in SUBSET ChartDistricts }

InitCompl ==
    /\ stats \in StatsValues
    /\ statsPc = "ret"
    /\ data = <<>>
    /\ startA = [day |-> 0, ms |-> 0]
    /\ endA = [day |-> 0, ms |-> 0]
    /\ startB = [day |-> 0, ms |-> 0]
    /\ endB = [day |-> 0, ms |-> 0]
    /\ InitCompl0
    /\ InitRoc0
    /\ InitApp0

CallRenderYearlyStats ==
    /\ complPc = "idle"
    /\ tableRows' = renderYearlyStats(stats)
    /\ complPc' = "table"
    /\ UNCHANGED <<targets, completionData, divByZero, rocVars, statsVars,
                   appVars>>

CallRenderCompletionVisuals ==
    /\ complPc = "table"
    /\ \E tg \in TargetMaps :
         /\ targets' = tg
         /\ completionData' = renderCompletionVisuals(stats, tg)
    /\ divByZero' = (divByZero \/ \E i \in 1..Len(completionData') :
                                    completionData'[i].percentage.den = 0)
    /\ complPc' = "chart"
    /\ UNCHANGED <<tableRows, rocVars, statsVars, appVars>>

NextCompl == CallRenderYearlyStats \/ CallRenderCompletionVisuals

SpecCompl == InitCompl /\ [][NextCompl]_vars

----------------------------------------------------------------------------
(* The page: loading data, analysis, typing targets *)

\* Date.prototype.getDay: 0 is Sunday; 1 January 1970 was a Thursday
getDay(d) == (d.day + 4) % 7

\* local wall-clock time of a UTC time value
UtcToLocal(utcDay, utcMs, offset) ==
    LET t == utcMs + offset
    IN  [day |-> utcDay + (t \div MsPerDay), ms |-> t % MsPerDay]

\* value of an <input type="date">: empty, or a date "yyyy-mm-dd"
EmptyDateInput == [empty |-> TRUE, y |-> 0, m |-> 0, d |-> 0]
DateInput(y, m, d) == [empty |-> FALSE, y |-> y, m |-> m, d |-> d]

\* new Date("yyyy-mm-dd"): a date-only string is midnight UTC of that day
NewDateFromIso(v, offset) == UtcToLocal(MakeDay(v.y, v.m - 1, v.d), 0, offset)

NoRange == [null |-> TRUE,
            start |-> [day |-> 0, ms |-> 0], end |-> [day |-> 0, ms |-> 0]]
SomeRange(s, e) == [null |-> FALSE, start |-> s, end |-> e]

\* getSelectedDateRange, src/index.tsx:289-334; now is what new Date()
\* returns during the call
getSelectedDateRange(selectedFilter, now, startDateStr, endDateStr, offset) ==
    CASE selectedFilter = "week" ->
            SomeRange(StartOfDay(now.day - getDay(now)), now)
      [] selectedFilter = "month" ->
            SomeRange(NewDate(getFullYear(now), getMonth(now), 1), now)
      [] selectedFilter = "month-last" ->
            SomeRange(NewDate(getFullYear(now), getMonth(now) - 1, 1),
                      EndOfDay(NewDate(getFullYear(now), getMonth(now), 0).day))
      [] selectedFilter = "year" ->
            SomeRange(NewDate(getFullYear(now), 0, 1), now)
      [] selectedFilter = "custom" ->
            IF startDateStr.empty \/ endDateStr.empty THEN NoRange
            ELSE LET start == StartOfDay(NewDateFromIso(startDateStr, offset).day)
                     end   == EndOfDay(NewDateFromIso(endDateStr, offset).day)
                 IN  IF ~DateLE(start, end) THEN NoRange
                     ELSE SomeRange(start, end)
      [] OTHER -> NoRange

\* window A ending on the first day of the selected range
EndOfRangeA_SameDay(start) == EndOfDay(start.day)

\* endOfRangeA: a copy of dateRange.start, setDate(getDate() - 1), then
\* setHours(23, 59, 59, 999)
EndOfRangeA(start) == EndOfDay(start.day - 1)

\* allData.filter(item => itemDate && itemDate >= start && itemDate <= end)
DateFiltered(items, range) ==
    LET InRange(item) ==
            LET itemDate == rocToGregorian(item.date)
            IN  ~itemDate.null /\ DateGE(itemDate, range.start)
                               /\ DateLE(itemDate, range.end)
    IN  SelectSeq(items, InRange)

\* the filter by selected districts; no selection keeps every record
DistrictFiltered(items, selectedDistricts) ==
    IF selectedDistricts = {} THEN items
    ELSE LET Selected(item) == item.district \in selectedDistricts
         IN  SelectSeq(items, Selected)

\* options of the district filter, filled by populateDistrictFilter
DistrictOptions(items) == {items[i].district : i \in 1..Len(items)} \ {""}

\* Number(input.value) of a target input
Number(chars) ==
    IF chars # <<>> /\ Head(chars) = "-" THEN 0 - DecimalValue(Tail(chars))
    ELSE DecimalValue(chars)

\* some input filled in place of every input
AllFilled_Some(inputs) ==
    \E i \in 1..Len(inputs) : inputs[i] # <<>> /\ Number(inputs[i]) > 0

\* inputs.every(input => input.value && Number(input.value) > 0)
AllFilled(inputs) ==
    \A i \in 1..Len(inputs) : inputs[i] # <<>> /\ Number(inputs[i]) > 0

\* the Map built from the inputs: data-district -> Number(value)
TargetsOf(rows, inputs) ==
    [k \in Range(rows) |->
        Number(inputs[CHOOSE i \in 1..Len(rows) : rows[i] = k])]

\* records of the loaded files: one without a district and with a date
\* that is no date, and one in each of two districts, inspected on
\* 2 January 2024
NoDistrictRecord == [district |-> "", date |-> StrVal(<<"a","b","c">>)]
EastRecord ==
    [district |-> "East",
     date |-> StrVal(<<"1","1","3","/","0","1","/","0","2">>)]
NorthRecord ==
    [district |-> "North",
     date |-> StrVal(<<"1","1","3","/","0","1","/","0","2">>)]

\* the arrays a file can hold; [] stands for empty or invalid text
Datasets ==
    { <<>>, <<NoDistrictRecord>>, <<EastRecord>>, <<NorthRecord, EastRecord>>,
      <<EastRecord, NoDistrictRecord>> }

\* values of the two custom date inputs
CustomDates ==
    {EmptyDateInput, DateInput(2023, 12, 31), DateInput(2024, 1, 1),
     DateInput(2024, 1, 3)}

\* the checked radio button ("none" when no button is checked) and the
\* values of the custom date inputs, which only "custom" reads
DateSelections ==
    [filter : {"week", "month", "month-last", "year", "none"},
     start : {EmptyDateInput}, end : {EmptyDateInput}]
    \cup [filter : {"custom"}, start : CustomDates, end : CustomDates]

\* the selections tried on the page: no radio button, the current year,
\* the single day 3 January 2024, and a custom range left incomplete
PageSelections ==
    { [filter |-> "none", start |-> EmptyDateInput, end |-> EmptyDateInput],
      [filter |-> "year", start |-> EmptyDateInput, end |-> EmptyDateInput],
      [filter |-> "custom", start |-> DateInput(2024, 1, 3),
                            end |-> DateInput(2024, 1, 3)],
      [filter |-> "custom", start |-> EmptyDateInput,
                            end |-> DateInput(2024, 1, 3)] }

\* the time of the session on the page: noon of Wednesday 3 January 2024
PageNow == [day |-> MakeDay(2024, 0, 3), ms |-> 43200000]

\* the times at which date ranges are computed: midnight and noon of the
\* days from 31 December 2023 on
NowValues ==
    { [day |-> MakeDay(2024, 0, d), ms |-> m] :
        d \in 0..MaxDayOfYear, m \in {0, 43200000} }

\* time zones of the browser: UTC+8 and UTC-5
TzOffsets == {28800000, -18000000}

DigitChar == <<"0", "1", "2", "3", "4", "5", "6", "7", "8", "9">>

\* what a target input can hold: nothing, zero, a negative or a positive
\* number
TargetInputValues ==
    {<<>>, <<"0">>, <<"-", "1">>} \cup {<<DigitChar[n + 1]>> : n \in 1..MaxTarget}

Init ==
    /\ InitRoc0
    /\ InitStats0
    /\ InitCompl0
    /\ allData = <<>>
    /\ currentYearlyStats = EmptyStats
    /\ allFilteredStationsData = <<>>
    /\ targetInputs = <<>>
    /\ completionDisplay = "none"
    /\ cardsDisplay = "none"
    /\ clock = PageNow
    /\ tzOffset \in TzOffsets
    /\ lastEvent = "DOMContentLoaded"

\* processJsonData, src/index.tsx:143-187: a valid non-empty array
\* replaces allData; empty or invalid text resets it to []
ProcessJsonData ==
    /\ allData' \in Datasets
    /\ lastEvent' = "processJsonData"
    /\ UNCHANGED <<rocVars, statsVars, complVars, currentYearlyStats,
                   allFilteredStationsData, targetInputs, completionDisplay,
                   cardsDisplay, clock, tzOffset>>

\* handleAnalysis, src/index.tsx:209-258, with renderResults and
\* clearResults, for a date selection among selections; clock is the time
\* new Date() returns
Analysis(selections) ==
    \E selection \in selections, now \in {clock},
       selectedDistricts \in SUBSET DistrictOptions(allData) :
    IF Len(allData) = 0
    THEN /\ lastEvent' = "handleAnalysis:noData"
         /\ UNCHANGED <<rocVars, statsVars, complVars, allData,
                        currentYearlyStats, allFilteredStationsData,
                        targetInputs, completionDisplay, cardsDisplay, clock,
                        tzOffset>>
    ELSE \E dateRange \in {getSelectedDateRange(selection.filter, now,
                              selection.start, selection.end, tzOffset)} :
         IF dateRange.null
         THEN /\ lastEvent' = "handleAnalysis:noRange"
              /\ clock' = now
              /\ UNCHANGED <<rocVars, statsVars, complVars, allData,
                             currentYearlyStats, allFilteredStationsData,
                             targetInputs, completionDisplay, cardsDisplay,
                             tzOffset>>
         ELSE \E startOfYear \in {NewDate(getFullYear(now), 0, 1)},
                 endOfRangeA \in {EndOfRangeA(dateRange.start)},
                 itemsAfter \in {ItemsAfterForEach(allData)} :
              \E yearlyStats \in
                     {calculateYearlyDistrictStats(allData, startOfYear,
                          endOfRangeA, dateRange.start, dateRange.end)},
                 filtered \in
                     {DistrictFiltered(DateFiltered(itemsAfter, dateRange),
                                       selectedDistricts)} :
              /\ clock' = now
              /\ allData' = itemsAfter
              /\ startA' = startOfYear
              /\ endA' = endOfRangeA
              /\ startB' = dateRange.start
              /\ endB' = dateRange.end
              /\ currentYearlyStats' = yearlyStats
              /\ allFilteredStationsData' = filtered
              /\ IF Len(filtered) = 0 /\ Len(yearlyStats.keys) = 0
                 THEN \* clearResults
                      /\ tableRows' = <<>>
                      /\ targetInputs' = <<>>
                      /\ cardsDisplay' = "none"
                      /\ lastEvent' = "handleAnalysis:cleared"
                      /\ UNCHANGED completionDisplay
                 ELSE \* renderResults
                      /\ tableRows' = renderYearlyStats(yearlyStats)
                      /\ targetInputs' =
                            [i \in 1..Len(renderYearlyStats(yearlyStats)) |-> <<>>]
                      /\ completionDisplay' = "none"
                      /\ cardsDisplay' = "flex"
                      /\ lastEvent' = "handleAnalysis:rendered"
              /\ UNCHANGED <<rocVars, data, stats, statsPc, targets,
                             completionData, divByZero, complPc, tzOffset>>

\* the user edits one target input; handleTargetInputChange,
\* src/index.tsx:553-572
HandleTargetInputChange ==
    /\ Len(targetInputs) > 0
    /\ \E i \in 1..Len(targetInputs), v \in TargetInputValues :
         \E inputs \in {[targetInputs EXCEPT ![i] = v]} :
         /\ targetInputs' = inputs
         /\ IF AllFilled(inputs)
            THEN /\ targets' = TargetsOf(tableRows, inputs)
                 /\ completionData' =
                       renderCompletionVisuals(currentYearlyStats,
                                               TargetsOf(tableRows, inputs))
                 /\ completionDisplay' = "block"
                 /\ lastEvent' = "handleTargetInputChange:rendered"
            ELSE /\ completionDisplay' = "none"
                 /\ lastEvent' = "handleTargetInputChange:hidden"
                 /\ UNCHANGED <<targets, completionData>>
    /\ divByZero' = (divByZero \/ \E i \in 1..Len(completionData') :
                                    completionData'[i].percentage.den = 0)
    /\ UNCHANGED <<rocVars, statsVars, tableRows, complPc, allData,
                   currentYearlyStats, allFilteredStationsData, cardsDisplay,
                   clock, tzOffset>>

HandleAnalysis == Analysis(PageSelections)

Next == ProcessJsonData \/ HandleAnalysis \/ HandleTargetInputChange

Spec == Init /\ [][Next]_vars

\* the first analysis of a loaded file, at any of the times and for any
\* selection
InitRange ==
    /\ InitRoc0
    /\ InitStats0
    /\ InitCompl0
    /\ allData = <<NorthRecord, EastRecord>>
    /\ currentYearlyStats = EmptyStats
    /\ allFilteredStationsData = <<>>
    /\ targetInputs = <<>>
    /\ completionDisplay = "none"
    /\ cardsDisplay = "none"
    /\ clock \in NowValues
    /\ tzOffset \in TzOffsets
    /\ lastEvent = "DOMContentLoaded"

HandleAnalysisAnyRange ==
    /\ lastEvent = "DOMContentLoaded"
    /\ Analysis(DateSelections)

NextRange == HandleAnalysisAnyRange

SpecRange == InitRange /\ [][NextRange]_vars

----------------------------------------------------------------------------
(* Properties of rocToGregorian *)

IsNumericSegment(seg) ==
    seg # <<>> /\ \A i \in 1..Len(seg) : seg[i] \in Digits

IsThreeNumeric ==
    /\ rocDateStr.type = "string"
    /\ Len(rocSegs) = 3
    /\ \A i \in 1..3 : IsNumericSegment(rocSegs[i])

DaysInMonth(y, m) ==
    IF m = 2 THEN (IF IsLeapYear(y) THEN 29 ELSE 28)
    ELSE IF m \in {4, 6, 9, 11} THEN 30 ELSE 31

\* the calendar date [y, m, d] (m in 1..12, d a day of that month) that
\* a year, a month number and a day number denote when months and days
\* outside their ranges roll over into the adjacent months and years
RECURSIVE RollOver(_, _, _)
RollOver(y, m, d) ==
    IF m > 12 THEN RollOver(y + 1, m - 12, d)
    ELSE IF m < 1 THEN RollOver(y - 1, m + 12, d)
    ELSE IF d > DaysInMonth(y, m) THEN RollOver(y, m + 1, d - DaysInMonth(y, m))
    ELSE IF d < 1 THEN
        (IF m = 1 THEN RollOver(y - 1, 12, d + 31)
         ELSE RollOver(y, m - 1, d + DaysInMonth(y, m - 1)))
    ELSE [y |-> y, m |-> m, d |-> d]

DateFields(r) == [y |-> getFullYear(r), m |-> getMonth(r) + 1, d |-> getDate(r)]

\* C5: a string of three digit segments y, m, d, separated by '/' or '-'
\* in any mix, converts to the date of year y + 1911, month m, day d, with
\* months and days outside their ranges rolled over into the adjacent
\* months and years; "113/05/20" is 2024-05-20 and "113-13-01" is
\* 2025-01-01.
C5_Conversion ==
    (rocPc = "ret" /\ IsThreeNumeric) =>
        /\ ~rocResult.null
        /\ rocResult.ms = 0
        /\ DateFields(rocResult) =
               RollOver(DecimalValue(rocSegs[1]) + 1911,
                        DecimalValue(rocSegs[2]), DecimalValue(rocSegs[3]))
        /\ (rocSegs = << <<"1","1","3">>, <<"0","5">>, <<"2","0">> >>
               => DateFields(rocResult) = [y |-> 2024, m |-> 5, d |-> 20])
        /\ (rocSegs = << <<"1","1","3">>, <<"1","3">>, <<"1">> >>
               => DateFields(rocResult) = [y |-> 2025, m |-> 1, d |-> 1])

C5_Witness ==
    /\ rocPc = "ret"
    /\ rocSegs = << <<"1","1","3">>, <<"1","3">>, <<"1">> >>
    /\ rocSeps = <<"-", "/">>
    /\ DateFields(rocResult) = [y |-> 2025, m |-> 1, d |-> 1]

\* C6: every input that is not three digit segments separated by '/' or
\* '-' converts to "no date".
C6_RejectsOtherShapes ==
    (rocPc = "ret" /\ ~IsThreeNumeric) => rocResult.null

----------------------------------------------------------------------------
(* Properties of calculateYearlyDistrictStats *)

\* the records at their positions in data
Positions == 1..Len(data)

\* calendar day of a record's inspection date, read off the date string
Resolved(i) == ~rocToGregorian(data[i].date).null
DayOf(i) == rocToGregorian(data[i].date).day

\* membership of a day (at 00:00:00.000) in a window [s, e], both ends
\* inclusive
DayInWindow(n, s, e) ==
    /\ (s.day < n \/ (s.day = n /\ s.ms = 0))
    /\ n <= e.day

InA(i) == Resolved(i) /\ DayInWindow(DayOf(i), startA, endA)
InB(i) == Resolved(i) /\ DayInWindow(DayOf(i), startB, endB)

Of(k) == {i \in Positions : data[i].district = k}

RECURSIVE SumOver(_, _)
SumOver(f, S) ==
    IF S = {} THEN 0
    ELSE LET x == CHOOSE x \in S : TRUE IN f[x] + SumOver(f, S \ {x})

\* C1: every district entry of the result has countC = countA + countB.
C1_CountC ==
    statsPc = "ret" =>
        \A k \in OwnKeys(stats) :
            stats.val[k].countC = stats.val[k].countA + stats.val[k].countB

C1_Witness ==
    /\ statsPc = "ret"
    /\ \E k \in OwnKeys(stats) :
         /\ stats.val[k].countA = 1
         /\ stats.val[k].countB = 1
         /\ stats.val[k].countC = 2
    /\ DateLE(startB, endA) /\ DateLE(startA, endB)

\* C2: a record dated inside both windows is counted in countA only; a
\* record adds at most one to one of countA and countB of its district,
\* and the countC of all districts together do not exceed the number of
\* records.
C2_APriority ==
    statsPc = "ret" =>
        /\ \A k \in OwnKeys(stats) :
              /\ stats.val[k].countB
                    <= Cardinality({i \in Of(k) : InB(i) /\ ~InA(i)})
              /\ stats.val[k].countA
                    >= Cardinality({i \in Of(k) : InA(i) /\ InB(i)})
              /\ stats.val[k].countA + stats.val[k].countB
                    <= Cardinality({i \in Of(k) : Resolved(i)})
        /\ SumOver([k \in OwnKeys(stats) |-> stats.val[k].countC],
                   OwnKeys(stats)) <= Len(data)

C2_Witness ==
    /\ statsPc = "ret"
    /\ \E i \in Positions :
         /\ InA(i) /\ InB(i)
         /\ data[i].district \in OwnKeys(stats)
         /\ stats.val[data[i].district].countA = 1
         /\ stats.val[data[i].district].countB = 0

\* C3: the keys of the result are exactly the distinct non-empty district
\* values of the records.
C3_KeySet ==
    statsPc = "ret" =>
        OwnKeys(stats) = {data[i].district : i \in Positions} \ {""}

\* C4: window membership is inclusive at both ends: countA of a district
\* counts its records dated from the day of startA to the day of endA,
\* countB those outside window A dated from the day of startB to the day
\* of endB; a record outside both windows is counted nowhere.
C4_Inclusive ==
    statsPc = "ret" =>
        \A k \in OwnKeys(stats) :
            /\ stats.val[k].countA = Cardinality({i \in Of(k) : InA(i)})
            /\ stats.val[k].countB
                  = Cardinality({i \in Of(k) : InB(i) /\ ~InA(i)})

C4_Witness ==
    /\ statsPc = "ret"
    /\ \E i, j \in Positions :
         /\ data[i].district = data[j].district
         /\ data[i].district \in OwnKeys(stats)
         /\ Resolved(i) /\ DayOf(i) = endA.day /\ DayOf(i) = startA.day
         /\ Resolved(j) /\ DayOf(j) = endA.day + 1
         /\ DayOf(j) = startB.day
         /\ stats.val[data[i].district].countA = 1
         /\ stats.val[data[i].district].countB = 1

----------------------------------------------------------------------------
(* Properties of renderCompletionVisuals *)

\* districts of stats whose target is present and strictly positive
Qualifying == {k \in OwnKeys(stats) : k \in DOMAIN targets /\ targets[k] > 0}

NumQualifying == Cardinality(Qualifying)

\* the entries pushed by the loop over the districts
DistrictEntries ==
    SubSeq(completionData, 1,
           IF Len(completionData) < NumQualifying THEN Len(completionData)
           ELSE NumQualifying)

HasAggregate == Len(completionData) = NumQualifying + 1

\* p is the quotient (n / d) * 100
IsPercentageOf(p, n, d) == p.den # 0 /\ d # 0 /\ p.num * d = n * 100 * p.den

\* C7: the completion pass makes one entry for each district of stats
\* whose target is present and > 0, with percentage countC / target * 100,
\* makes no entry for any other district, and never divides by zero.
C7_DistrictEntries ==
    complPc = "chart" =>
        /\ Len(DistrictEntries) = NumQualifying
        /\ Len(completionData) <= NumQualifying + 1
        /\ {DistrictEntries[i].key : i \in 1..NumQualifying} = Qualifying
        /\ \A i \in 1..NumQualifying :
              IsPercentageOf(DistrictEntries[i].percentage,
                             stats.val[DistrictEntries[i].key].countC,
                             targets[DistrictEntries[i].key])
        /\ ~divByZero

C7_Witness ==
    /\ complPc = "chart"
    /\ \E k, z, n \in OwnKeys(stats) :
         /\ k \in Qualifying /\ stats.val[k].countC = 1 /\ targets[k] = 2
         /\ z \in DOMAIN targets /\ targets[z] = 0
         /\ n \notin DOMAIN targets
    /\ Len(completionData) = 2
    /\ completionData[1].percentage = [num |-> 100, den |-> 2]

\* C8: an aggregate entry is appended exactly when the targets of the
\* qualifying districts sum to more than 0; it is the last entry and its
\* percentage is (sum of their countC) / (sum of their targets) * 100.
C8_Aggregate ==
    complPc = "chart" =>
        LET sumC == SumOver([k \in Qualifying |-> stats.val[k].countC], Qualifying)
            sumT == SumOver([k \in Qualifying |-> targets[k]], Qualifying)
            last == completionData[Len(completionData)]
        IN  /\ HasAggregate <=> sumT > 0
            /\ ~HasAggregate => Len(completionData) = NumQualifying
            /\ HasAggregate =>
                  /\ last.key = AggregateLabel
                  /\ IsPercentageOf(last.percentage, sumC, sumT)

C8_Witness ==
    /\ complPc = "chart"
    /\ NumQualifying = 2
    /\ OwnKeys(stats) \ Qualifying # {}
    /\ \E k \in OwnKeys(stats) \ Qualifying : stats.val[k].countC > 0
    /\ HasAggregate
    /\ completionData[3].percentage = [num |-> 300, den |-> 4]

\* C9: the label of the aggregate entry differs from the label of every
\* district entry.
C9_DistinctLabel ==
    (complPc = "chart" /\ HasAggregate) =>
        \A i \in 1..NumQualifying :
            completionData[i].key # completionData[Len(completionData)].key

RECURSIVE IsSubsequence(_, _)
IsSubsequence(a, b) ==
    IF a = <<>> THEN TRUE
    ELSE IF b = <<>> THEN FALSE
    ELSE IF Head(a) = Head(b) THEN IsSubsequence(Tail(a), Tail(b))
    ELSE IsSubsequence(a, Tail(b))

\* C10: the district entries of the completion output come in the order
\* of the district rows of the table.
C10_TableOrder ==
    complPc = "chart" =>
        IsSubsequence([i \in 1..Len(DistrictEntries) |-> DistrictEntries[i].key],
                      tableRows)

C10_Witness ==
    /\ complPc = "chart"
    /\ stats.keys = <<AggregateLabel, "North", "East">>
    /\ tableRows = <<"East", "North", AggregateLabel>>
    /\ Len(completionData) = 3
    /\ completionData[1].key = "East"
    /\ completionData[2].key = AggregateLabel

----------------------------------------------------------------------------
(* Repeated calls and inverted windows *)

Inverted(s, e) == ~DateLE(s, e)

\* C12: with a window whose start is after its end the call returns a
\* result in which that window's count is 0 for every district and the
\* other window's count is the number of the district's records inside it.
C12_InvertedWindow ==
    statsPc = "ret" =>
        /\ Inverted(startA, endA) =>
              \A k \in OwnKeys(stats) :
                 /\ stats.val[k].countA = 0
                 /\ stats.val[k].countB = Cardinality({i \in Of(k) : InB(i)})
        /\ Inverted(startB, endB) =>
              \A k \in OwnKeys(stats) :
                 /\ stats.val[k].countB = 0
                 /\ stats.val[k].countA = Cardinality({i \in Of(k) : InA(i)})

C12_Witness ==
    /\ statsPc = "ret"
    /\ Inverted(startA, endA)
    /\ ~Inverted(startB, endB)
    /\ \E i, j \in Positions :
         /\ data[i].district = data[j].district
         /\ data[i].district \in OwnKeys(stats)
         /\ Resolved(i) /\ endA.day < DayOf(i) /\ DayOf(i) < startA.day
         /\ Resolved(j) /\ DayOf(j) = startB.day
         /\ stats.val[data[i].district] = [countA |-> 0, countB |-> 2, countC |-> 2]

----------------------------------------------------------------------------
(* Properties of the page *)

AfterTargetInput ==
    lastEvent \in {"handleTargetInputChange:rendered",
                   "handleTargetInputChange:hidden"}

\* a target value that is non-empty and strictly positive
IsPositiveInput(chars) ==
    /\ chars # <<>>
    /\ \A i \in 1..Len(chars) : chars[i] \in Digits
    /\ \E i \in 1..Len(chars) : chars[i] # "0"

\* C13: after a target-input event the completion view is shown exactly
\* when every district row of the table has a non-empty, strictly
\* positive target, and the completion pass ran in that case only.
C13_AllOrNothing ==
    AfterTargetInput =>
        LET allPositive ==
                \A i \in 1..Len(tableRows) : IsPositiveInput(targetInputs[i])
        IN  /\ Len(targetInputs) = Len(tableRows)
            /\ completionDisplay = "block" <=> allPositive
            /\ lastEvent = "handleTargetInputChange:rendered" <=> allPositive

C13_Witness ==
    /\ lastEvent = "handleTargetInputChange:hidden"
    /\ Len(tableRows) = 2
    /\ IsPositiveInput(targetInputs[1])
    /\ targetInputs[2] = <<"0">>
    /\ completionDisplay = "none"
    /\ Len(completionData) = 3

AfterWindows ==
    lastEvent \in {"handleAnalysis:cleared", "handleAnalysis:rendered"}

\* C14: the windows handleAnalysis passes on never overlap: window A
\* starts at 00:00 of 1 January of the current year and ends at
\* 23:59:59.999 of the day before window B starts.
C14_DisjointWindows ==
    AfterWindows =>
        /\ getFullYear(startA) = getFullYear(clock)
        /\ getMonth(startA) = 0 /\ getDate(startA) = 1 /\ startA.ms = 0
        /\ endA = [day |-> startB.day - 1, ms |-> 86399999]
        /\ startB.ms = 0
        /\ ~DateLE(startB, endA)
        /\ \A n \in (startA.day - 1)..(endB.day + 1) :
              ~(DayInWindow(n, startA, endA) /\ DayInWindow(n, startB, endB))

C14_Witness ==
    /\ AfterWindows
    /\ DateLE(startA, endA)
    /\ DateLE(startB, endB)
    /\ startB.day = endA.day + 1
    /\ clock.day = endB.day
    /\ getDay(startB) = 0
    /\ currentYearlyStats.val["East"].countA = 1

\* C15: an analysis run that replaces currentYearlyStats leaves the
\* completion view hidden, and a shown completion view holds the chart of
\* the cached currentYearlyStats.
C15_HiddenAfterAnalysis ==
    /\ AfterWindows => completionDisplay = "none"
    /\ completionDisplay = "block" =>
          completionData = renderCompletionVisuals(currentYearlyStats, targets)

====
